---- MODULE Spec2Model ----
(***************************************************************************)
(* Word Up: a Wordle-style daily word game.                                *)
(*                                                                         *)
(* The module models GameLogic (game.js), the keypress listener of main.js *)
(* that drives it from the UI tiles, the statistics it records and the     *)
(* snapshot it saves.  Words are sequences of one-character strings        *)
(* (positions 1..5 here are the code's indices 0..4); rows and columns of  *)
(* the board keep the code's 0-based indices.                              *)
(***************************************************************************)
EXTENDS Integers, Sequences, FiniteSets, TLC

(***************************************************************************)
(* Bounds of the model.                                                    *)
(***************************************************************************)
\* number of letters of the alphabet the player may type
NumLetters == 2

\* number of letters of the alphabet the evaluator is run on
NumEvalLetters == 3

\* days before and after 2024-01-01 over which the clock ranges
MaxPast == 2
MaxDay == 31

\* number of games recorded in the statistics on their own
MaxGames == 3

\* number of UTC midnights that pass while the game is installed
MaxDate == 1

\* number of key events that may wait in the browser's queue
MaxQueue == 2

(***************************************************************************)
(* Program constants.                                                      *)
(***************************************************************************)
maxRows == 6
maxCols == 5

Alphabet ==
  << "A", "B", "C", "D", "E", "F", "G", "H", "I", "J", "K", "L", "M",
     "N", "O", "P", "Q", "R", "S", "T", "U", "V", "W", "X", "Y", "Z" >>

\* the characters String.fromCharCode(65..90)
AZ == { Alphabet[i] : i \in 1..26 }

\* the letters typed in the model
Letters == { Alphabet[i] : i \in 1..NumLetters }

\* keys that are neither ENTER, BACKSPACE nor a single upper-case letter
InvalidKeys == { "1", "a", "Enter" }

Keys == Letters \cup { "ENTER", "BACKSPACE" } \cup InvalidKeys

\* the answer list and the extra accepted guesses (static word lists)
ANSWERS == { << "A", "A", "A", "A", "A" >>, << "B", "B", "B", "B", "A" >> }
VALID_GUESSES == { << "A", "B", "A", "A", "B" >> }

\* the letters and the 5-letter words the evaluator is run on
EvalLetters == { Alphabet[i] : i \in 1..NumEvalLetters }
Words == [1..maxCols -> EvalLetters]

\* the words of the evaluateGuess tests
HELLO == << "H", "E", "L", "L", "O" >>
WORLD == << "W", "O", "R", "L", "D" >>
LLAMA == << "L", "L", "A", "M", "A" >>
CRANE == << "C", "R", "A", "N", "E" >>
TRACE == << "T", "R", "A", "C", "E" >>
TestWords == { HELLO, WORLD, LLAMA, CRANE, TRACE }

\* words not yet upper-cased, as validateGuess may be handed them
MixedCaseWords ==
  { << "a", "a", "a", "a", "a" >>, << "a", "B", "c", "A", "b" >>,
    << "A", "b", "C", "a", "B" >> }

\* every word the evaluator is run on
EvalWords == Words \cup TestWords \cup MixedCaseWords

\* String.prototype.toUpperCase on one character
toUpperCase(c) ==
  IF c = "a" THEN "A" ELSE IF c = "b" THEN "B" ELSE IF c = "c" THEN "C" ELSE c

upper(word) == [i \in 1..Len(word) |-> toUpperCase(word[i])]

(***************************************************************************)
(* GameLogic.validateGuess                                                 *)
(***************************************************************************)
\* every letter of the target is counted once, however often it occurs
countLettersOnce(targetArray, counts, i) ==
  [l \in { targetArray[j] : j \in 1..Len(targetArray) } |-> 1]

\* targetCounts after targetArray.forEach(letter => targetCounts[letter]++)
RECURSIVE countLetters(_, _, _)
countLetters(targetArray, counts, i) ==
  IF i > Len(targetArray) THEN counts
  ELSE LET letter == targetArray[i]
           prev == IF letter \in DOMAIN counts THEN counts[letter] ELSE 0
           next == [l \in DOMAIN counts \cup {letter} |->
                      IF l = letter THEN prev + 1 ELSE counts[l]]
       IN countLetters(targetArray, next, i + 1)

\* targetCounts[letter] > 0 (undefined > 0 is false)
hasRemaining(counts, letter) ==
  letter \in DOMAIN counts /\ counts[letter] > 0

\* first pass that marks exact matches without consuming the target's count
firstPassKeepCounts(guessArray, targetArray, acc) ==
  [states |-> [i \in 1..Len(acc.states) |->
                 IF i <= Len(guessArray) /\ i <= Len(targetArray)
                    /\ guessArray[i] = targetArray[i]
                 THEN "correct" ELSE acc.states[i]],
   counts |-> acc.counts]

\* First pass: mark correct letters
RECURSIVE firstPassFrom(_, _, _, _)
firstPassFrom(guessArray, targetArray, acc, i) ==
  IF i > Len(guessArray) THEN acc
  ELSE LET letter == guessArray[i]
       IN IF i <= Len(targetArray) /\ letter = targetArray[i]
          THEN firstPassFrom(guessArray, targetArray,
                 [states |-> [acc.states EXCEPT ![i] = "correct"],
                  counts |-> [acc.counts EXCEPT ![letter] = @ - 1]], i + 1)
          ELSE firstPassFrom(guessArray, targetArray, acc, i + 1)

firstPass(guessArray, targetArray, acc) ==
  firstPassFrom(guessArray, targetArray, acc, 1)

\* Second pass: mark present letters
RECURSIVE secondPassFrom(_, _, _)
secondPassFrom(guessArray, acc, i) ==
  IF i > Len(guessArray) THEN acc
  ELSE LET letter == guessArray[i]
       IN IF acc.states[i] = "absent" /\ hasRemaining(acc.counts, letter)
          THEN secondPassFrom(guessArray,
                 [states |-> [acc.states EXCEPT ![i] = "present"],
                  counts |-> [acc.counts EXCEPT ![letter] = @ - 1]], i + 1)
          ELSE secondPassFrom(guessArray, acc, i + 1)

\* second pass that marks nothing: a letter off its position stays absent
secondPassNone(guessArray, acc) == acc

\* second pass that marks a letter present whenever the target still holds it,
\* without consuming the count
secondPassNoDecrement(guessArray, acc) ==
  [states |-> [i \in 1..Len(acc.states) |->
                 IF acc.states[i] = "absent" /\ i <= Len(guessArray)
                    /\ hasRemaining(acc.counts, guessArray[i])
                 THEN "present" ELSE acc.states[i]],
   counts |-> acc.counts]

secondPass(guessArray, acc) == secondPassFrom(guessArray, acc, 1)

every(states, state) == \A i \in 1..Len(states) : states[i] = state

\* the guess is compared as it was typed, without toUpperCase()
validateGuessCaseSensitive(targetWord, guess) ==
  LET target      == upper(targetWord)
      guessArray  == guess
      targetArray == target
      states      == [i \in 1..5 |-> "absent"]
      targetCounts == countLetters(targetArray, << >>, 1)
      afterFirst  == firstPass(guessArray, targetArray,
                               [states |-> states, counts |-> targetCounts])
      afterSecond == secondPass(guessArray, afterFirst)
  IN [word |-> guess,
      states |-> afterSecond.states,
      isWin |-> every(afterSecond.states, "correct")]

\* the target is judged against the guess
validateGuessSwapped(targetWord, guess) ==
  LET target      == upper(guess)
      guessArray  == upper(targetWord)
      targetArray == target
      states      == [i \in 1..5 |-> "absent"]
      targetCounts == countLetters(targetArray, << >>, 1)
      afterFirst  == firstPass(guessArray, targetArray,
                               [states |-> states, counts |-> targetCounts])
      afterSecond == secondPass(guessArray, afterFirst)
  IN [word |-> guess,
      states |-> afterSecond.states,
      isWin |-> every(afterSecond.states, "correct")]

validateGuess(targetWord, guess) ==
  LET target      == upper(targetWord)
      guessArray  == upper(guess)
      targetArray == target
      states      == [i \in 1..5 |-> "absent"]
      targetCounts == countLetters(targetArray, << >>, 1)
      afterFirst  == firstPass(guessArray, targetArray,
                               [states |-> states, counts |-> targetCounts])
      afterSecond == secondPass(guessArray, afterFirst)
  IN [word |-> guess,
      states |-> afterSecond.states,
      isWin |-> every(afterSecond.states, "correct")]


(***************************************************************************)
(* Dates: new Date().toISOString().split('T')[0] of a UTC day number, and  *)
(* the parse back done by new Date(dateString).                            *)
(***************************************************************************)
ISODates ==
  << "2024-01-01", "2024-01-02", "2024-01-03", "2024-01-04", "2024-01-05" >>

null == "null"

toISODate(day) == ISODates[day + 1]

parseISODate(date) == (CHOOSE i \in 1..Len(ISODates) : ISODates[i] = date) - 1

(***************************************************************************)
(* GameStatistics                                                          *)
(***************************************************************************)
getDefaultStats ==
  [version |-> 1,
   totalGames |-> 0,
   totalWins |-> 0,
   currentStreak |-> 0,
   maxStreak |-> 0,
   guessDistribution |-> << 0, 0, 0, 0, 0, 0 >>,
   averageGuesses |-> 0,
   lastPlayedDate |-> null,
   lastCompletedWord |-> null,
   gameHistory |-> << >>,
   dailyStats |-> [played |-> 0, won |-> 0, currentStreak |-> 0,
                   maxStreak |-> 0, lastPlayedDate |-> null],
   practiceStats |-> [played |-> 0, won |-> 0, totalGuesses |-> 0]]

\* Math.floor((d2 - d1) / (1000 * 3600 * 24)) of two date strings
getDaysDifference(date1, date2) == parseISODate(date2) - parseISODate(date1)

\* the maximum is compared with the streak before the win is counted
updateCurrentStreakStaleMax(stats, won, date) ==
  LET lastDate == stats.lastPlayedDate
  IN IF won
     THEN LET streak == IF lastDate = null \/ getDaysDifference(lastDate, date) <= 1
                        THEN stats.currentStreak + 1
                        ELSE 1
          IN [stats EXCEPT !.currentStreak = streak,
                           !.maxStreak = IF stats.currentStreak > @
                                         THEN stats.currentStreak ELSE @]
     ELSE [stats EXCEPT !.currentStreak = 0]

\* a win on the day after the last game starts the streak again
updateCurrentStreakSameDayOnly(stats, won, date) ==
  LET lastDate == stats.lastPlayedDate
  IN IF won
     THEN LET streak == IF lastDate = null \/ getDaysDifference(lastDate, date) < 1
                        THEN stats.currentStreak + 1
                        ELSE 1
          IN [stats EXCEPT !.currentStreak = streak,
                           !.maxStreak = IF streak > @ THEN streak ELSE @]
     ELSE [stats EXCEPT !.currentStreak = 0]

updateCurrentStreak(stats, won, date) ==
  LET lastDate == stats.lastPlayedDate
  IN IF won
     THEN LET streak == IF lastDate = null \/ getDaysDifference(lastDate, date) <= 1
                        THEN stats.currentStreak + 1
                        ELSE 1
          IN [stats EXCEPT !.currentStreak = streak,
                           !.maxStreak = IF streak > @ THEN streak ELSE @]
     ELSE [stats EXCEPT !.currentStreak = 0]

updateDailyStats(stats, won, guessCount, date) ==
  LET d == stats.dailyStats
      lastDate == d.lastPlayedDate
      daysDiff == getDaysDifference(lastDate, date)
      streak == IF lastDate # null
                THEN IF daysDiff = 1 /\ won THEN d.currentStreak + 1
                     ELSE IF daysDiff = 1 /\ ~won THEN 0
                     ELSE IF daysDiff > 1 THEN (IF won THEN 1 ELSE 0)
                     ELSE d.currentStreak
                ELSE (IF won THEN 1 ELSE 0)
  IN [stats EXCEPT !.dailyStats =
        [played |-> d.played + 1,
         won |-> IF won THEN d.won + 1 ELSE d.won,
         currentStreak |-> streak,
         maxStreak |-> IF streak > d.maxStreak THEN streak ELSE d.maxStreak,
         lastPlayedDate |-> date]]

updatePracticeStats(stats, won, guessCount) ==
  [stats EXCEPT !.practiceStats =
     [played |-> @.played + 1,
      won |-> IF won THEN @.won + 1 ELSE @.won,
      totalGuesses |-> IF won THEN @.totalGuesses + guessCount ELSE @.totalGuesses]]

RECURSIVE sumGuesses(_, _)
sumGuesses(dist, index) ==
  IF index > Len(dist) THEN 0
  ELSE dist[index] * index + sumGuesses(dist, index + 1)

\* averageGuesses is kept in tenths: Math.round(x * 10) / 10
updateAverageGuesses(stats) ==
  LET totalGuesses == sumGuesses(stats.guessDistribution, 1)
  IN [stats EXCEPT !.averageGuesses =
        IF stats.totalWins > 0
        THEN (20 * totalGuesses + stats.totalWins) \div (2 * stats.totalWins)
        ELSE 0]

\* the guess distribution counts every game, lost ones included
recordGameCountsLosses(stats, won, guessCount, targetWord, gameMode, date) ==
  LET s1 == [stats EXCEPT !.totalGames = @ + 1,
                          !.guessDistribution[guessCount] = @ + 1]
      s2 == IF won
            THEN updateCurrentStreak([s1 EXCEPT !.totalWins = @ + 1], TRUE, date)
            ELSE updateCurrentStreak(s1, FALSE, date)
      s3 == IF gameMode = "daily"
            THEN updateDailyStats(s2, won, guessCount, date)
            ELSE updatePracticeStats(s2, won, guessCount)
      gameRecord == [date |-> date, won |-> won,
                     guessCount |-> IF won THEN guessCount ELSE 0,
                     targetWord |-> targetWord, gameMode |-> gameMode]
      history == << gameRecord >> \o s3.gameHistory
      s4 == [s3 EXCEPT !.gameHistory =
               IF Len(history) > 100 THEN SubSeq(history, 1, 100) ELSE history]
      s5 == updateAverageGuesses(s4)
  IN [s5 EXCEPT !.lastPlayedDate = date, !.lastCompletedWord = targetWord]

recordGame(stats, won, guessCount, targetWord, gameMode, date) ==
  LET s1 == [stats EXCEPT !.totalGames = @ + 1]
      s2 == IF won
            THEN updateCurrentStreak(
                   [s1 EXCEPT !.totalWins = @ + 1,
                              !.guessDistribution[guessCount] = @ + 1],
                   TRUE, date)
            ELSE updateCurrentStreak(s1, FALSE, date)
      s3 == IF gameMode = "daily"
            THEN updateDailyStats(s2, won, guessCount, date)
            ELSE updatePracticeStats(s2, won, guessCount)
      gameRecord == [date |-> date, won |-> won,
                     guessCount |-> IF won THEN guessCount ELSE 0,  \* 0 stands for null
                     targetWord |-> targetWord, gameMode |-> gameMode]
      history == << gameRecord >> \o s3.gameHistory
      s4 == [s3 EXCEPT !.gameHistory =
               IF Len(history) > 100 THEN SubSeq(history, 1, 100) ELSE history]
      s5 == updateAverageGuesses(s4)
  IN [s5 EXCEPT !.lastPlayedDate = date, !.lastCompletedWord = targetWord]


(***************************************************************************)
(* DailyWordGenerator.  Instants are counted in seconds from               *)
(* 2024-01-01T00:00:00Z (getTime() / 1000, less the epoch's), so that      *)
(* GAME_EPOCH, which new Date('2024-01-01') parses as UTC midnight, is 0.  *)
(* A clock is the Date environment: the instant and getTimezoneOffset()    *)
(* in minutes.  Numbers beyond 31 bits are kept in 16-bit limbs            *)
(* [t2, d1, d0] standing for t2 * 2^32 + d1 * 2^16 + d0.                   *)
(***************************************************************************)
GAME_EPOCH == 0

\* 1000 * 60 * 60 * 24 milliseconds, in seconds
secondsPerDay == 60 * 60 * 24

\* 'WORDUP_DAILY_2024' followed by '_', as char codes
SEED_SALT ==
  << 87, 79, 82, 68, 85, 80, 95, 68, 65, 73, 76, 89, 95, 50, 48, 50, 52, 95 >>

\* the generator is constructed over the answers, in the order of the array
WORDS == << <<"A", "A", "A", "A", "A">>, <<"B", "B", "B", "B", "A">> >>

\* the value of an array element outside the array
undefined == << >>

\* Math.floor of a division truncated toward zero instead
getCurrentDayNumberTrunc(date) ==
  LET elapsed == date.time - GAME_EPOCH
  IN IF elapsed >= 0 THEN elapsed \div secondsPerDay
     ELSE -((-elapsed) \div secondsPerDay)

\* the day is counted from local midnight instead of UTC midnight
getCurrentDayNumberLocal(date) ==
  (date.time - date.timezoneOffset * 60 - GAME_EPOCH) \div secondsPerDay

getCurrentDayNumber(date) ==
  (date.time - GAME_EPOCH) \div secondsPerDay

\* String(n) as char codes
RECURSIVE digitCodes(_)
digitCodes(n) ==
  IF n < 10 THEN << 48 + n >>
  ELSE Append(digitCodes(n \div 10), 48 + (n % 10))

numberToString(n) ==
  IF n < 0 THEN << 45 >> \o digitCodes(-n) ELSE digitCodes(n)

Two16 == 65536

\* ToInt32 of a value held as two 16-bit halves: wrap to 32 bits
toInt32(hi, lo) == [hi |-> (hi + lo \div Two16) % Two16, lo |-> lo % Two16]

\* hash = ((hash << 5) - hash) + char; hash = hash & hash
hashStep(hash, char) ==
  CHOOSE next \in
    { LET shifted == toInt32(h.hi * 32, h.lo * 32)
          lo == shifted.lo - h.lo + char + Two16
          hi == shifted.hi - h.hi + (lo \div Two16 - 1) + 2 * Two16
      IN [hi |-> hi % Two16, lo |-> lo % Two16] : h \in { hash } } : TRUE

RECURSIVE hashFrom(_, _, _)
hashFrom(combined, hash, i) ==
  IF i > Len(combined) THEN hash
  ELSE hashFrom(combined, hashStep(hash, combined[i]), i + 1)

\* Math.abs of the signed 32-bit value
absInt32(hash) ==
  IF hash.hi >= Two16 \div 2
  THEN (Two16 - 1 - hash.hi) * Two16 + (Two16 - hash.lo)
  ELSE hash.hi * Two16 + hash.lo

createSeed(dayNumber) ==
  LET combined == SEED_SALT \o numberToString(dayNumber)
  IN absInt32(hashFrom(combined, [hi |-> 0, lo |-> 0], 1))

LCG_A == 1103515245
LCG_C == 12345

RECURSIVE bitLength(_)
bitLength(n) == IF n = 0 THEN 0 ELSE 1 + bitLength(n \div 2)

RECURSIVE pow2(_)
pow2(k) == IF k = 0 THEN 1 ELSE 2 * pow2(k - 1)

\* carry the limbs back into range
normalizeLimbs(t2, d1, d0) ==
  LET c0 == d0 \div Two16
      e1 == d1 + c0
  IN [t2 |-> t2 + e1 \div Two16, d1 |-> e1 % Two16, d0 |-> d0 % Two16]

\* a * n for 0 <= n < 2^31, exactly
multiply(a, n) ==
  LET a1 == a \div Two16
      a0 == a % Two16
      n1 == n \div Two16
      n0 == n % Two16
      t0 == a0 * n0
      t1 == a1 * n0 + a0 * n1 + t0 \div Two16
  IN [t2 |-> a1 * n1 + t1 \div Two16, d1 |-> t1 % Two16, d0 |-> t0 % Two16]

\* the nearest double (53 significant bits, ties to even) of a value below 2^63
toDouble(x) ==
  LET k == bitLength(x.t2) + 32 - 53
  IN IF k <= 0 THEN x
     ELSE LET unit == pow2(k)
              r == x.d0 % unit
              keptOdd == (x.d0 \div unit) % 2 = 1
              roundUp == (2 * r > unit) \/ (2 * r = unit /\ keptOdd)
          IN normalizeLimbs(x.t2, x.d1,
                            x.d0 - r + (IF roundUp THEN unit ELSE 0))

\* x % 2^31
mod2to31(x) == (x.d1 % (Two16 \div 2)) * Two16 + x.d0

\* (a * normalizedSeed + c) % m in double arithmetic
lcgNext(normalizedSeed) ==
  LET product == toDouble(multiply(LCG_A, normalizedSeed))
      sum == toDouble(normalizeLimbs(product.t2, product.d1, product.d0 + LCG_C))
  IN mod2to31(sum)

\* the seed is used as it comes: the remainder of a negative dividend is
\* negative
seededRandomNoNormalize(seed) ==
  IF seed < 0 THEN -lcgNext(-seed) ELSE lcgNext(seed)

\* the result is next / 2^31; seededRandom is that numerator
seededRandom(seed) ==
  LET magnitude == IF seed < 0 THEN -seed ELSE seed
      normalizedSeed == IF magnitude = 0 THEN 1 ELSE magnitude
  IN lcgNext(normalizedSeed)

\* Math.floor(randomValue * length) for randomValue = next / 2^31
wordIndexOf(next, length) ==
  IF next >= 0
  THEN ((next \div Two16) * length + ((next % Two16) * length) \div Two16)
         \div (Two16 \div 2)
  ELSE -1 - (((-next - 1) \div Two16) * length
               + (((-next - 1) % Two16) * length) \div Two16) \div (Two16 \div 2)

\* new Date(GAME_EPOCH + dayNumber * 24 * 60 * 60 * 1000).toDateString(): the
\* local calendar day of that UTC midnight, counted from 2024-01-01; a Date
\* more than 100,000,000 days from 1970-01-01 (19723 days before the epoch)
\* is invalid
toDateString(dayNumber, timezoneOffset) ==
  IF dayNumber < -100000000 - 19723 \/ dayNumber > 100000000 - 19723
  THEN "Invalid Date"
  ELSE dayNumber + (GAME_EPOCH - timezoneOffset * 60) \div secondsPerDay

getWordForDay(dayNumber, timezoneOffset) ==
  LET seed == createSeed(dayNumber)
      randomValue == seededRandom(seed)
      wordIndex == wordIndexOf(randomValue, Len(WORDS))
  IN [word |-> IF wordIndex \in 0..(Len(WORDS) - 1)
               THEN WORDS[wordIndex + 1] ELSE undefined,
      dayNumber |-> dayNumber,
      date |-> toDateString(dayNumber, timezoneOffset)]

getTodaysWord(date) ==
  getWordForDay(getCurrentDayNumber(date), date.timezoneOffset)

\* the time left is counted to the next UTC midnight, not the local one
getDayStatsUTC(date) ==
  LET todaysWord == getTodaysWord(date)
      timeUntilNext == secondsPerDay - (date.time % secondsPerDay)
  IN [word |-> todaysWord.word,
      dayNumber |-> todaysWord.dayNumber,
      date |-> todaysWord.date,
      timeUntilNext |-> [hours |-> timeUntilNext \div (60 * 60),
                         minutes |-> (timeUntilNext % (60 * 60)) \div 60,
                         milliseconds |-> timeUntilNext * 1000]]

\* today's word with the time left until the next local midnight
getDayStats(date) ==
  LET todaysWord == getTodaysWord(date)
      localTime == date.time - date.timezoneOffset * 60
      timeUntilNext == secondsPerDay - (localTime % secondsPerDay)
  IN [word |-> todaysWord.word,
      dayNumber |-> todaysWord.dayNumber,
      date |-> todaysWord.date,
      timeUntilNext |-> [hours |-> timeUntilNext \div (60 * 60),
                         minutes |-> (timeUntilNext % (60 * 60)) \div 60,
                         milliseconds |-> timeUntilNext * 1000]]

\* startDailyTimer: the test under which a tick shows 'New daily word
\* available! Refresh to play.'
showsNewWordMessage(stats) ==
  stats.timeUntilNext.hours = 0 /\ stats.timeUntilNext.minutes = 0

(***************************************************************************)
(* State: the fields of the GameLogic object, the text of the UI tiles,    *)
(* the statistics, the snapshot in localStorage, the clock's UTC day and   *)
(* the last key event with the result processKeyPress returned for it;     *)
(* the clock, the daily word last shown and the last direct call of the    *)
(* generator or of the statistics; the key events waiting in the browser's *)
(* queue, the pending timers of updateRow and the session the dispatched   *)
(* keys give when applied one after another.                               *)
(***************************************************************************)
VARIABLES targetWord, currentRow, currentCol, gameState, guesses,
          letterStates, gameMode, tiles, statistics, storage, today,
          lastKey, lastResult,
          evalGuess, evalResult,
          now, timezoneOffset, dailyWord, call,
          events, timers, sequential

gameVars == << targetWord, currentRow, currentCol, gameState, guesses,
               letterStates, gameMode >>

sessionVars == << targetWord, currentRow, currentCol, gameState, guesses,
                  letterStates, gameMode, tiles, statistics, storage, today >>

evalVars == << evalGuess, evalResult >>

dailyVars == << now, timezoneOffset, dailyWord, call >>

queueVars == << events, timers, sequential >>

vars == << targetWord, currentRow, currentCol, gameState, guesses,
           letterStates, gameMode, tiles, statistics, storage, today,
           lastKey, lastResult, evalGuess, evalResult,
           now, timezoneOffset, dailyWord, call,
           events, timers, sequential >>

\* the current state as one value: `this' of GameLogic together with the
\* objects it reaches (gameUI.tiles, statistics.stats, localStorage, Date)
This ==
  [targetWord |-> targetWord, currentRow |-> currentRow,
   currentCol |-> currentCol, gameState |-> gameState, guesses |-> guesses,
   letterStates |-> letterStates, gameMode |-> gameMode, tiles |-> tiles,
   statistics |-> statistics, storage |-> storage, today |-> today]

\* the dictionaries are non-empty arrays, so initializeGame sets initialized
initialized == ANSWERS # {} /\ VALID_GUESSES # {}

(***************************************************************************)
(* GameUI: tile text                                                       *)
(***************************************************************************)
emptyTiles == [row \in 0..(maxRows - 1) |-> [col \in 0..(maxCols - 1) |-> ""]]

updateTile(t, row, col, letter) ==
  IF row \in DOMAIN t /\ col \in DOMAIN t[row]
  THEN [t EXCEPT ![row][col] = toUpperCase(letter)]
  ELSE t

clearTile(t, row, col) == updateTile(t, row, col, "")

RECURSIVE updateRowFrom(_, _, _, _)
updateRowFrom(t, row, letters, col) ==
  IF col >= Len(letters) THEN t
  ELSE updateRowFrom(updateTile(t, row, col, letters[col + 1]), row, letters, col + 1)

\* the staggered timers of updateRow rewrite the letters the row already shows
updateRow(t, row, letters) == updateRowFrom(t, row, letters, 0)

getRowLetters(t, row) ==
  IF row \in DOMAIN t
  THEN [i \in 1..maxCols |-> t[row][i - 1]]
  ELSE << >>

\* letters.join('').toUpperCase(): empty tiles contribute nothing
getCurrentGuess(g) ==
  upper(SelectSeq(getRowLetters(g.tiles, g.currentRow), LAMBDA c : c # ""))

(***************************************************************************)
(* GameLogic                                                               *)
(***************************************************************************)
\* only the additional valid guesses are accepted as guesses
isValidWordGuessesOnly(word) ==
  IF Len(word) # 5 THEN FALSE
  ELSE upper(word) \in VALID_GUESSES

\* only the answers are accepted as guesses
isValidWordAnswersOnly(word) ==
  IF Len(word) # 5 THEN FALSE
  ELSE upper(word) \in ANSWERS

isValidWord(word) ==
  IF Len(word) # 5 THEN FALSE
  ELSE LET upperWord == upper(word)
       IN upperWord \in ANSWERS \/ upperWord \in VALID_GUESSES

\* absent and present change places in the priority table
statePriorityAbsentWins(state) ==
  CASE state = "unused"  -> 0
    [] state = "present" -> 1
    [] state = "absent"  -> 2
    [] state = "correct" -> 3

statePriority(state) ==
  CASE state = "unused"  -> 0
    [] state = "absent"  -> 1
    [] state = "present" -> 2
    [] state = "correct" -> 3

RECURSIVE updateLetterStatesFrom(_, _, _, _)
updateLetterStatesFrom(ls, guess, states, i) ==
  IF i > Len(guess) THEN ls
  ELSE LET letter == guess[i]
           currentState == ls[letter]
           newState == states[i]
       IN IF statePriority(newState) > statePriority(currentState)
          THEN updateLetterStatesFrom([ls EXCEPT ![letter] = newState],
                                      guess, states, i + 1)
          ELSE updateLetterStatesFrom(ls, guess, states, i + 1)

\* every letter takes the verdict of its last position, whatever it had
updateLetterStatesOverwrite(ls, guess, states) ==
  [letter \in DOMAIN ls |->
     IF \E i \in 1..Len(guess) : guess[i] = letter
     THEN states[CHOOSE i \in 1..Len(guess) :
                   /\ guess[i] = letter
                   /\ \A j \in (i + 1)..Len(guess) : guess[j] # letter]
     ELSE ls[letter]]

updateLetterStates(ls, guess, states) ==
  updateLetterStatesFrom(ls, guess, states, 1)

saveGameState(g) ==
  [g EXCEPT !.storage =
     [date |-> toISODate(g.today),
      targetWord |-> g.targetWord,
      currentRow |-> g.currentRow,
      currentCol |-> g.currentCol,
      gameState |-> g.gameState,
      guesses |-> g.guesses,
      letterStates |-> g.letterStates,
      gameMode |-> g.gameMode]]

\* the column is incremented before it is reported (++currentCol)
addLetterPreIncrement(g, letter) ==
  IF g.currentCol >= maxCols
  THEN [this |-> g, result |-> [success |-> FALSE, reason |-> "Row is full"]]
  ELSE [this |-> [g EXCEPT !.currentCol = @ + 1],
        result |-> [success |-> TRUE, action |-> "add_letter",
                    letter |-> letter, row |-> g.currentRow,
                    col |-> g.currentCol + 1]]

\* the row-full guard lets one letter too many through
addLetterOffByOne(g, letter) ==
  IF g.currentCol > maxCols
  THEN [this |-> g, result |-> [success |-> FALSE, reason |-> "Row is full"]]
  ELSE [this |-> [g EXCEPT !.currentCol = @ + 1],
        result |-> [success |-> TRUE, action |-> "add_letter",
                    letter |-> letter, row |-> g.currentRow,
                    col |-> g.currentCol]]

addLetter(g, letter) ==
  IF g.currentCol >= maxCols
  THEN [this |-> g, result |-> [success |-> FALSE, reason |-> "Row is full"]]
  ELSE [this |-> [g EXCEPT !.currentCol = @ + 1],
        result |-> [success |-> TRUE, action |-> "add_letter",
                    letter |-> letter, row |-> g.currentRow,
                    col |-> g.currentCol]]

\* the cell reported is the column before the decrement
deleteLetterReportsOldCol(g) ==
  IF g.currentCol <= 0
  THEN [this |-> g, result |-> [success |-> FALSE, reason |-> "Nothing to delete"]]
  ELSE [this |-> [g EXCEPT !.currentCol = @ - 1],
        result |-> [success |-> TRUE, action |-> "delete_letter",
                    row |-> g.currentRow, col |-> g.currentCol]]

\* the column is decremented before the guard
deleteLetterDecrementFirst(g) ==
  IF g.currentCol - 1 < 0
  THEN [this |-> [g EXCEPT !.currentCol = @ - 1],
        result |-> [success |-> FALSE, reason |-> "Nothing to delete"]]
  ELSE [this |-> [g EXCEPT !.currentCol = @ - 1],
        result |-> [success |-> TRUE, action |-> "delete_letter",
                    row |-> g.currentRow, col |-> g.currentCol - 1]]

deleteLetter(g) ==
  IF g.currentCol <= 0
  THEN [this |-> g, result |-> [success |-> FALSE, reason |-> "Nothing to delete"]]
  ELSE [this |-> [g EXCEPT !.currentCol = @ - 1],
        result |-> [success |-> TRUE, action |-> "delete_letter",
                    row |-> g.currentRow, col |-> g.currentCol - 1]]

\* the win is recorded and reported but the snapshot is not saved
winGameNoSave(g, guess, states) ==
  LET won == [g EXCEPT !.gameState = "won",
                       !.statistics = recordGame(@, TRUE, g.currentRow + 1,
                                        g.targetWord, g.gameMode,
                                        toISODate(g.today))]
  IN [this |-> won,
      result |-> [success |-> TRUE, action |-> "win_game",
                  row |-> g.currentRow, letters |-> guess,
                  states |-> states, guessCount |-> g.currentRow + 1]]

\* submitGuess, win branch: record the win, save, report win_game
winGame(g, guess, states) ==
  LET won == [g EXCEPT !.gameState = "won",
                       !.statistics = recordGame(@, TRUE, g.currentRow + 1,
                                        g.targetWord, g.gameMode,
                                        toISODate(g.today))]
  IN [this |-> saveGameState(won),
      result |-> [success |-> TRUE, action |-> "win_game",
                  row |-> g.currentRow, letters |-> guess,
                  states |-> states, guessCount |-> g.currentRow + 1]]

\* the loss is recorded and reported but the snapshot is not saved
loseGameNoSave(g, guess, states) ==
  LET lost == [g EXCEPT !.gameState = "lost",
                        !.statistics = recordGame(@, FALSE, maxRows,
                                         g.targetWord, g.gameMode,
                                         toISODate(g.today))]
  IN [this |-> lost,
      result |-> [success |-> TRUE, action |-> "lose_game",
                  row |-> g.currentRow - 1, letters |-> guess,
                  states |-> states, targetWord |-> g.targetWord]]

\* submitGuess, lose branch (the row has already been advanced)
loseGame(g, guess, states) ==
  LET lost == [g EXCEPT !.gameState = "lost",
                        !.statistics = recordGame(@, FALSE, maxRows,
                                         g.targetWord, g.gameMode,
                                         toISODate(g.today))]
  IN [this |-> saveGameState(lost),
      result |-> [success |-> TRUE, action |-> "lose_game",
                  row |-> g.currentRow - 1, letters |-> guess,
                  states |-> states, targetWord |-> g.targetWord]]

\* the row reported is the row the game moved to, not the one completed
continueGameReportsNewRow(g, guess, states) ==
  [this |-> saveGameState(g),
   result |-> [success |-> TRUE, action |-> "continue_game",
               row |-> g.currentRow, letters |-> guess,
               states |-> states]]

\* submitGuess, continue branch (the row has already been advanced)
continueGame(g, guess, states) ==
  [this |-> saveGameState(g),
   result |-> [success |-> TRUE, action |-> "continue_game",
               row |-> g.currentRow - 1, letters |-> guess,
               states |-> states]]

\* Move to next row
nextRow(g) == [g EXCEPT !.currentRow = @ + 1, !.currentCol = 0]

\* the row is advanced and the loss detected before the win is looked at
finishGuessAdvanceFirst(g, guess, states) ==
  IF nextRow(g).currentRow >= maxRows THEN loseGame(nextRow(g), guess, states)
  ELSE IF every(states, "correct") THEN winGame(g, guess, states)
  ELSE continueGame(nextRow(g), guess, states)

\* the loss is declared one row early
finishGuessEarlyLoss(g, guess, states) ==
  IF every(states, "correct") THEN winGame(g, guess, states)
  ELSE IF nextRow(g).currentRow >= maxRows - 1
       THEN loseGame(nextRow(g), guess, states)
       ELSE continueGame(nextRow(g), guess, states)

\* the loss is declared one row late
finishGuessLateLoss(g, guess, states) ==
  IF every(states, "correct") THEN winGame(g, guess, states)
  ELSE IF nextRow(g).currentRow > maxRows
       THEN loseGame(nextRow(g), guess, states)
       ELSE continueGame(nextRow(g), guess, states)

\* the tail of submitGuess once the guess is accepted: win, lose or continue
finishGuess(g, guess, states) ==
  IF every(states, "correct") THEN winGame(g, guess, states)
  ELSE IF nextRow(g).currentRow >= maxRows
       THEN loseGame(nextRow(g), guess, states)
       ELSE continueGame(nextRow(g), guess, states)

\* the dictionary is consulted before the length of the row
submitGuessValidatesFirst(g) ==
  LET guess == getCurrentGuess(g)
  IN IF ~isValidWord(guess)
     THEN [this |-> g,
           result |-> [success |-> FALSE, reason |-> "Not in word list",
                       action |-> "shake_row", row |-> g.currentRow]]
     ELSE IF g.currentCol < maxCols
     THEN [this |-> g,
           result |-> [success |-> FALSE, reason |-> "Not enough letters",
                       action |-> "shake_row", row |-> g.currentRow]]
     ELSE LET result == validateGuess(g.targetWord, guess)
              pushed == [g EXCEPT
                           !.guesses = Append(@, [word |-> guess,
                                                  result |-> result.states]),
                           !.letterStates =
                              updateLetterStates(@, guess, result.states)]
          IN finishGuess(pushed, guess, result.states)

\* the record is pushed before the word list is consulted
submitGuessRecordsRejected(g) ==
  IF g.currentCol < maxCols
  THEN [this |-> g,
        result |-> [success |-> FALSE, reason |-> "Not enough letters",
                    action |-> "shake_row", row |-> g.currentRow]]
  ELSE LET guess == getCurrentGuess(g)
           result == validateGuess(g.targetWord, guess)
           recorded == [g EXCEPT
                          !.guesses = Append(@, [word |-> guess,
                                                 result |-> result.states])]
       IN IF ~isValidWord(guess)
          THEN [this |-> recorded,
                result |-> [success |-> FALSE, reason |-> "Not in word list",
                            action |-> "shake_row", row |-> g.currentRow]]
          ELSE finishGuess([recorded EXCEPT
                              !.letterStates =
                                 updateLetterStates(@, guess, result.states)],
                           guess, result.states)

\* the record is put in front of the earlier ones (unshift for push)
submitGuessUnshift(g) ==
  IF g.currentCol < maxCols
  THEN [this |-> g,
        result |-> [success |-> FALSE, reason |-> "Not enough letters",
                    action |-> "shake_row", row |-> g.currentRow]]
  ELSE LET guess == getCurrentGuess(g)
       IN IF ~isValidWord(guess)
          THEN [this |-> g,
                result |-> [success |-> FALSE, reason |-> "Not in word list",
                            action |-> "shake_row", row |-> g.currentRow]]
          ELSE LET result == validateGuess(g.targetWord, guess)
                   pushed == [g EXCEPT
                                !.guesses = << [word |-> guess,
                                                result |-> result.states] >> \o @,
                                !.letterStates =
                                   updateLetterStates(@, guess, result.states)]
               IN finishGuess(pushed, guess, result.states)

submitGuess(g) ==
  IF g.currentCol < maxCols
  THEN [this |-> g,
        result |-> [success |-> FALSE, reason |-> "Not enough letters",
                    action |-> "shake_row", row |-> g.currentRow]]
  ELSE LET guess == getCurrentGuess(g)
       IN IF ~isValidWord(guess)
          THEN [this |-> g,
                result |-> [success |-> FALSE, reason |-> "Not in word list",
                            action |-> "shake_row", row |-> g.currentRow]]
          ELSE LET result == validateGuess(g.targetWord, guess)
                   pushed == [g EXCEPT
                                !.guesses = Append(@, [word |-> guess,
                                                       result |-> result.states]),
                                !.letterStates =
                                   updateLetterStates(@, guess, result.states)]
               IN finishGuess(pushed, guess, result.states)

\* the key is upper-cased before it is dispatched
processKeyPressIgnoreCase(g, key) ==
  IF ~initialized
  THEN [this |-> g,
        result |-> [success |-> FALSE, reason |-> "Game not properly initialized"]]
  ELSE IF g.gameState # "playing"
  THEN [this |-> g, result |-> [success |-> FALSE, reason |-> "Game is over"]]
  ELSE IF key \in { "ENTER", "Enter" } THEN submitGuess(g)
  ELSE IF key = "BACKSPACE" THEN deleteLetter(g)
  ELSE IF toUpperCase(key) \in AZ THEN addLetter(g, toUpperCase(key))
  ELSE [this |-> g, result |-> [success |-> FALSE, reason |-> "Invalid key"]]

\* processKeyPress without the game-over guard
processKeyPressNoGameOver(g, key) ==
  IF ~initialized
  THEN [this |-> g,
        result |-> [success |-> FALSE, reason |-> "Game not properly initialized"]]
  ELSE IF key = "ENTER" THEN submitGuess(g)
  ELSE IF key = "BACKSPACE" THEN deleteLetter(g)
  ELSE IF key \in AZ THEN addLetter(g, key)
  ELSE [this |-> g, result |-> [success |-> FALSE, reason |-> "Invalid key"]]

processKeyPress(g, key) ==
  IF ~initialized
  THEN [this |-> g,
        result |-> [success |-> FALSE, reason |-> "Game not properly initialized"]]
  ELSE IF g.gameState # "playing"
  THEN [this |-> g, result |-> [success |-> FALSE, reason |-> "Game is over"]]
  ELSE IF key = "ENTER" THEN submitGuess(g)
  ELSE IF key = "BACKSPACE" THEN deleteLetter(g)
  ELSE IF key \in AZ THEN addLetter(g, key)
  ELSE [this |-> g, result |-> [success |-> FALSE, reason |-> "Invalid key"]]

(***************************************************************************)
(* main.js: the 'keypress' listener                                        *)
(***************************************************************************)
\* delete_letter leaves the tile as it is
handleResultKeepsTile(t, result) ==
  IF ~result.success THEN t
  ELSE CASE result.action = "add_letter" ->
              updateTile(t, result.row, result.col, result.letter)
         [] result.action = "delete_letter" -> t
         [] result.action \in { "continue_game", "win_game", "lose_game" } ->
              updateRow(t, result.row, result.letters)

handleResult(t, result) ==
  IF ~result.success THEN t
  ELSE CASE result.action = "add_letter" ->
              updateTile(t, result.row, result.col, result.letter)
         [] result.action = "delete_letter" ->
              clearTile(t, result.row, result.col)
         [] result.action \in { "continue_game", "win_game", "lose_game" } ->
              updateRow(t, result.row, result.letters)

keypressListener(g, key) ==
  LET out == processKeyPress(g, key)
  IN [this |-> [out.this EXCEPT !.tiles = handleResult(@, out.result)],
      result |-> out.result]

(***************************************************************************)
(* Page load: new GameLogic() and, in main.js, restoreUIState              *)
(***************************************************************************)
\* localStorage holds no snapshot
noSavedState == [date |-> null]

startNewGame(g, word) ==
  [g EXCEPT !.gameMode = "daily",
            !.targetWord = word,
            !.currentRow = 0,
            !.currentCol = 0,
            !.gameState = "playing",
            !.guesses = << >>,
            !.letterStates = [l \in AZ |-> "unused"]]

\* the keyboard hints are not read back: every letter starts unused
restoreGameStateNoHints(g, savedState) ==
  [g EXCEPT !.targetWord = savedState.targetWord,
            !.currentRow = savedState.currentRow,
            !.currentCol = savedState.currentCol,
            !.gameState = savedState.gameState,
            !.guesses = savedState.guesses,
            !.gameMode = savedState.gameMode,
            !.letterStates = [l \in AZ |-> "unused"]]

restoreGameState(g, savedState) ==
  [g EXCEPT !.targetWord = savedState.targetWord,
            !.currentRow = savedState.currentRow,
            !.currentCol = savedState.currentCol,
            !.gameState = savedState.gameState,
            !.guesses = savedState.guesses,
            !.gameMode = savedState.gameMode,
            !.letterStates = savedState.letterStates]

clearGameState(g) == [g EXCEPT !.storage = noSavedState]

\* a snapshot is restored whatever its date
initializeDailyGameAnyDate(g, todaysWord) ==
  LET savedState == g.storage
  IN IF savedState # noSavedState
     THEN restoreGameState(g, savedState)
     ELSE startNewGame(clearGameState(g), todaysWord)

\* todaysWord is what dailyWordGenerator.getTodaysWord() returns at the load
initializeDailyGame(g, todaysWord) ==
  LET savedState == g.storage
  IN IF savedState # noSavedState /\ savedState.date = toISODate(g.today)
     THEN restoreGameState(g, savedState)
     ELSE startNewGame(clearGameState(g), todaysWord)

RECURSIVE restoreRowsFrom(_, _, _)
restoreRowsFrom(t, gs, rowIndex) ==
  IF rowIndex >= Len(gs) THEN t
  ELSE restoreRowsFrom(updateRow(t, rowIndex, gs[rowIndex + 1].word), gs, rowIndex + 1)

restoreUIState(g) ==
  IF g.gameState = "won" \/ g.gameState = "lost"
  THEN [g EXCEPT !.tiles = restoreRowsFrom(@, g.guesses, 0)]
  ELSE IF g.currentRow > 0 \/ g.currentCol > 0
  THEN [g EXCEPT !.tiles = restoreRowsFrom(@, g.guesses, 0)]
  ELSE g

\* the GameLogic constructor, gameUI.init() and restoreUIState over what the
\* browser kept: the snapshot, the statistics and the clock
pageLoad(savedState, stats, day, todaysWord) ==
  LET constructed ==
        [targetWord |-> << >>, currentRow |-> 0, currentCol |-> 0,
         gameState |-> "playing", guesses |-> << >>,
         letterStates |-> [l \in AZ |-> "unused"], gameMode |-> "daily",
         tiles |-> emptyTiles, statistics |-> stats,
         storage |-> savedState, today |-> day]
  IN restoreUIState(initializeDailyGame(constructed, todaysWord))

(***************************************************************************)
(* What the browser may hold when the page is loaded: nothing, or what a   *)
(* visit earlier the same day left after some accepted guesses, the game   *)
(* still in progress.                                                      *)
(***************************************************************************)
validWords == ANSWERS \cup VALID_GUESSES

\* five letter keys on an empty row, then ENTER
typeWord(g, word) ==
  IF g.gameState # "playing" THEN g
  ELSE keypressListener([g EXCEPT !.tiles = updateRow(@, g.currentRow, word),
                                  !.currentCol = maxCols], "ENTER").this

RECURSIVE typeWords(_, _, _)
typeWords(g, words, i) ==
  IF i > Len(words) THEN g
  ELSE typeWords(typeWord(g, words[i]), words, i + 1)

\* the accepted guesses of an earlier visit that left the game in progress
earlierVisits(todaysWord) ==
  UNION { [1..k -> validWords \ { todaysWord }] : k \in 0..(maxRows - 1) }

NoEval ==
  /\ evalGuess = << >>
  /\ evalResult = << >>

\* the generator has not been called directly
noCall == [op |-> null]

\* no key event waits to be handled and no timer of updateRow is pending
NoQueue ==
  /\ events = << >>
  /\ timers = << >>
  /\ sequential = null

\* the clock stands at the epoch and the daily word is not looked at
NoDaily ==
  /\ now = GAME_EPOCH
  /\ timezoneOffset = 0
  /\ dailyWord = [word |-> undefined]
  /\ call = noCall

Loaded(g) ==
  /\ targetWord = g.targetWord
  /\ currentRow = g.currentRow
  /\ currentCol = g.currentCol
  /\ gameState = g.gameState
  /\ guesses = g.guesses
  /\ letterStates = g.letterStates
  /\ gameMode = g.gameMode
  /\ tiles = g.tiles
  /\ statistics = g.statistics
  /\ storage = g.storage
  /\ today = g.today
  /\ lastKey = null
  /\ lastResult = [success |-> FALSE, reason |-> null]

Init ==
  /\ \E todaysWord \in ANSWERS : \E words \in earlierVisits(todaysWord) :
       LET before == typeWords(pageLoad(noSavedState, getDefaultStats, 0, todaysWord),
                               words, 1)
       IN Loaded(pageLoad(before.storage, before.statistics, 0, todaysWord))
  /\ NoEval
  /\ NoQueue
  /\ NoDaily

KeyPress(key) ==
  \E out \in { keypressListener(This, key) } :
     /\ targetWord' = out.this.targetWord
     /\ currentRow' = out.this.currentRow
     /\ currentCol' = out.this.currentCol
     /\ gameState' = out.this.gameState
     /\ guesses' = out.this.guesses
     /\ letterStates' = out.this.letterStates
     /\ gameMode' = out.this.gameMode
     /\ tiles' = out.this.tiles
     /\ statistics' = out.this.statistics
     /\ storage' = out.this.storage
     /\ today' = out.this.today
     /\ lastKey' = key
     /\ lastResult' = out.result
     /\ UNCHANGED evalVars
     /\ UNCHANGED dailyVars
     /\ UNCHANGED queueVars

PressLetter == \E letter \in Letters : KeyPress(letter)
PressEnter == KeyPress("ENTER")
PressBackspace == KeyPress("BACKSPACE")
PressInvalid == \E key \in InvalidKeys : KeyPress(key)

Next == PressLetter \/ PressEnter \/ PressBackspace \/ PressInvalid

Spec == Init /\ [][Next]_vars

\* new Date() read at an instant in a timezone
Date(time, offset) == [time |-> time, timezoneOffset |-> offset]

(***************************************************************************)
(* The session over several visits: keys are pressed, the page is reloaded *)
(* (a new GameLogic over what localStorage holds) and UTC midnight passes, *)
(* after which the generator returns the next day's word.  The keys are    *)
(* those the keyboards of GameUI dispatch.                                 *)
(***************************************************************************)
InitSession ==
  /\ now = GAME_EPOCH
  /\ timezoneOffset = 0
  /\ dailyWord = getTodaysWord(Date(now, timezoneOffset))
  /\ call = noCall
  /\ Loaded(pageLoad(noSavedState, getDefaultStats, 0, dailyWord.word))
  /\ NoEval
  /\ NoQueue

\* the page is loaded again: DOMContentLoaded with a new GameLogic
Reload ==
  /\ \E g \in { pageLoad(storage, statistics, today, dailyWord.word) } :
       /\ targetWord' = g.targetWord
       /\ currentRow' = g.currentRow
       /\ currentCol' = g.currentCol
       /\ gameState' = g.gameState
       /\ guesses' = g.guesses
       /\ letterStates' = g.letterStates
       /\ gameMode' = g.gameMode
       /\ tiles' = g.tiles
       /\ statistics' = g.statistics
       /\ storage' = g.storage
       /\ today' = g.today
  /\ lastKey' = null
  /\ lastResult' = [success |-> FALSE, reason |-> null]
  /\ UNCHANGED evalVars
  /\ UNCHANGED dailyVars
  /\ UNCHANGED queueVars

\* new Date() moves into the next UTC day
Midnight ==
  /\ today < MaxDate
  /\ today' = today + 1
  /\ now' = GAME_EPOCH + (today + 1) * secondsPerDay
  /\ dailyWord' = getTodaysWord(Date(now', timezoneOffset))
  /\ UNCHANGED << gameVars, tiles, statistics, storage, lastKey, lastResult >>
  /\ UNCHANGED << evalVars, timezoneOffset, call >>
  /\ UNCHANGED queueVars

NextSession == PressLetter \/ PressEnter \/ PressBackspace \/ Reload \/ Midnight

SpecSession == InitSession /\ [][NextSession]_vars

(***************************************************************************)
(* The keyboard as the browser delivers it: key events wait in the event   *)
(* queue, the listeners of one event run to completion before the next     *)
(* event is taken, and the tiles of an accepted row are rewritten by the   *)
(* timers updateRow sets (one per tile, col * 100 ms), which fire between    *)
(* later events.  A row is not completed before the timers of the row      *)
(* before it have fired.  sequential is the session the same keys give     *)
(* when each is applied at once, in the order of dispatch.                 *)
(***************************************************************************)
\* the keys of the virtual keyboard and those the keydown listener lets pass
UIKeys == Letters \cup { "ENTER", "BACKSPACE" }

\* the event waiting longest is left behind and the newest is taken
nextEventNewest(queue) ==
  [key |-> queue[Len(queue)], rest |-> SubSeq(queue, 1, Len(queue) - 1)]

\* the event the browser hands to the listeners next, and those it keeps
nextEvent(queue) == [key |-> Head(queue), rest |-> Tail(queue)]

\* updateRow with animate = true: one setTimeout(updateTile) per tile
rowTimers(result) ==
  [i \in 1..Len(result.states) |->
     [row |-> result.row, col |-> i - 1, letter |-> result.letters[i]]]

\* the tiles as the keypress listener leaves them when it returns
handleResultAnimated(t, result) ==
  IF result.success /\ result.action \in { "continue_game", "win_game", "lose_game" }
  THEN t
  ELSE handleResult(t, result)

\* the keys applied one after another, each to completion
RECURSIVE replay(_, _)
replay(g, keys) ==
  IF keys = << >> THEN g
  ELSE replay(keypressListener(g, Head(keys)).this, Tail(keys))

InitQueue ==
  /\ Loaded(pageLoad(noSavedState, getDefaultStats, 0, WORDS[1]))
  /\ NoEval
  /\ NoDaily
  /\ events = << >>
  /\ timers = << >>
  /\ sequential = This

\* a click on the virtual keyboard or a keydown: the event joins the queue
Dispatch ==
  /\ Len(events) < MaxQueue
  /\ \E key \in UIKeys :
       /\ events' = Append(events, key)
       /\ sequential' = keypressListener(sequential, key).this
  /\ UNCHANGED << sessionVars, lastKey, lastResult, timers >>
  /\ UNCHANGED evalVars
  /\ UNCHANGED dailyVars

\* handleKeyPress and the keypress listener for the next event of the queue
HandleEvent ==
  /\ events # << >>
  /\ \E event \in { nextEvent(events) } :
     \E out \in { processKeyPress(This, event.key) } :
       /\ (out.result.success /\ out.result.action
              \in { "continue_game", "win_game", "lose_game" }) => timers = << >>
       /\ targetWord' = out.this.targetWord
       /\ currentRow' = out.this.currentRow
       /\ currentCol' = out.this.currentCol
       /\ gameState' = out.this.gameState
       /\ guesses' = out.this.guesses
       /\ letterStates' = out.this.letterStates
       /\ gameMode' = out.this.gameMode
       /\ tiles' = handleResultAnimated(out.this.tiles, out.result)
       /\ statistics' = out.this.statistics
       /\ storage' = out.this.storage
       /\ today' = out.this.today
       /\ lastKey' = event.key
       /\ lastResult' = out.result
       /\ events' = event.rest
       /\ timers' = IF out.result.success /\ out.result.action
                          \in { "continue_game", "win_game", "lose_game" }
                     THEN rowTimers(out.result)
                     ELSE timers
  /\ UNCHANGED sequential
  /\ UNCHANGED evalVars
  /\ UNCHANGED dailyVars

\* the callback of the timer due next: updateTile(row, col, letters[col])
TimerFire ==
  /\ timers # << >>
  /\ tiles' = updateTile(tiles, timers[1].row, timers[1].col, timers[1].letter)
  /\ timers' = SubSeq(timers, 2, Len(timers))
  /\ UNCHANGED << gameVars, statistics, storage, today, lastKey, lastResult >>
  /\ UNCHANGED << events, sequential >>
  /\ UNCHANGED evalVars
  /\ UNCHANGED dailyVars

NextQueue == Dispatch \/ HandleEvent \/ TimerFire

SpecQueue == InitQueue /\ [][NextQueue]_vars

(***************************************************************************)
(* The evaluator on its own: every target and guess over the letters, as   *)
(* the tests call it (targetWord set directly, then validateGuess).        *)
(***************************************************************************)
InitEval ==
  /\ \E word \in EvalWords :
       Loaded([pageLoad(noSavedState, getDefaultStats, 0, word)
                 EXCEPT !.targetWord = word])
  /\ NoEval
  /\ NoQueue
  /\ NoDaily

\* game.targetWord = target; game.validateGuess(guess)
Evaluate ==
  /\ evalGuess = << >>
  /\ \E guess \in EvalWords :
       /\ evalGuess' = guess
       /\ evalResult' = validateGuess(targetWord, guess)
  /\ UNCHANGED << sessionVars, lastKey, lastResult >>
  /\ UNCHANGED dailyVars
  /\ UNCHANGED queueVars

NextEval == Evaluate

SpecEval == InitEval /\ [][NextEval]_vars

(***************************************************************************)
(* The daily word on its own: the page is loaded at the first instant of   *)
(* the range; the minute timer then asks for the day's word as time        *)
(* passes, the page is reloaded in another timezone, and the generator is  *)
(* called directly, once, as its tests and the preview methods do.         *)
(***************************************************************************)
\* seconds after UTC midnight: the first and the last second of the day, and
\* 23:59:00 local time in each of the timezones
LastMinute == secondsPerDay - 60
TimesOfDay ==
  { 0, secondsPerDay - 1 }
    \cup { (LastMinute + offset * 60) % secondsPerDay : offset \in { -840, 0, 720 } }

Instants ==
  { GAME_EPOCH + d * secondsPerDay + s : d \in (-MaxPast)..MaxDay, s \in TimesOfDay }

\* getTimezoneOffset() of UTC+14, UTC and UTC-12
TimezoneOffsets == { -840, 0, 720 }

Seeds == { -2147483647, -100, -1, 0, 1, 2, 100, 12345, 2147483647 }

DayNumbers ==
  ((-MaxPast)..MaxDay) \cup { -2147483647, -36500, 99999, 2147483647 }

InitDaily ==
  /\ now = GAME_EPOCH - MaxPast * secondsPerDay
  /\ timezoneOffset \in TimezoneOffsets
  /\ dailyWord = getDayStats(Date(now, timezoneOffset))
  /\ call = noCall
  /\ Loaded(pageLoad(noSavedState, getDefaultStats,
                     getCurrentDayNumber(Date(now, timezoneOffset)),
                     getTodaysWord(Date(now, timezoneOffset)).word))
  /\ NoEval
  /\ NoQueue

\* setInterval callback of startDailyTimer: gameLogic.getDailyStats()
DailyTimer ==
  /\ \E t \in Instants :
       /\ t > now
       /\ t - now <= secondsPerDay
       /\ now' = t
       /\ dailyWord' = getDayStats(Date(t, timezoneOffset))
  /\ UNCHANGED << timezoneOffset, call >>
  /\ UNCHANGED << sessionVars, lastKey, lastResult, evalVars >>
  /\ UNCHANGED queueVars

\* the device changes timezone and the daily information is read again
ChangeTimezone ==
  /\ \E offset \in TimezoneOffsets \ { timezoneOffset } :
       /\ timezoneOffset' = offset
       /\ dailyWord' = getDayStats(Date(now, offset))
  /\ UNCHANGED << now, call >>
  /\ UNCHANGED << sessionVars, lastKey, lastResult, evalVars >>
  /\ UNCHANGED queueVars

\* generator.seededRandom(seed)
CallSeededRandom ==
  /\ call = noCall
  /\ \E seed \in Seeds :
       call' = [op |-> "seededRandom", arg |-> seed,
                result |-> seededRandom(seed)]
  /\ UNCHANGED << now, timezoneOffset, dailyWord >>
  /\ UNCHANGED << sessionVars, lastKey, lastResult, evalVars >>
  /\ UNCHANGED queueVars

\* generator.getWordForDay(dayNumber)
CallGetWordForDay ==
  /\ call = noCall
  /\ \E dayNumber \in DayNumbers :
       call' = [op |-> "getWordForDay", arg |-> dayNumber,
                result |-> getWordForDay(dayNumber, timezoneOffset)]
  /\ UNCHANGED << now, timezoneOffset, dailyWord >>
  /\ UNCHANGED << sessionVars, lastKey, lastResult, evalVars >>
  /\ UNCHANGED queueVars

NextDaily ==
  DailyTimer \/ ChangeTimezone \/ CallSeededRandom \/ CallGetWordForDay

SpecDaily == InitDaily /\ [][NextDaily]_vars

(***************************************************************************)
(* The statistics on their own, as their tests call them: recordGame with   *)
(* an explicit result, mode and date, the dates never running backwards.   *)
(***************************************************************************)
\* three consecutive days and a day after a gap
StatDates == { toISODate(0), toISODate(1), toISODate(2), toISODate(4) }

GameModes == { "daily", "practice" }

\* the gameResult objects handed to recordGame
GameResults ==
  [won : BOOLEAN, guessCount : 1..maxRows, gameMode : GameModes, date : StatDates]

InitStats ==
  /\ Loaded(pageLoad(noSavedState, getDefaultStats, 0, WORDS[1]))
  /\ NoEval
  /\ NoQueue
  /\ NoDaily

\* statistics.recordGame(gameResult)
RecordGame ==
  /\ statistics.totalGames < MaxGames
  /\ \E gameResult \in GameResults :
       /\ IF statistics.lastPlayedDate = null THEN TRUE
          ELSE getDaysDifference(statistics.lastPlayedDate, gameResult.date) >= 0
       /\ statistics' = recordGame(statistics, gameResult.won, gameResult.guessCount,
                                   targetWord, gameResult.gameMode, gameResult.date)
       /\ call' = [op |-> "recordGame", arg |-> gameResult]
  /\ UNCHANGED << gameVars, tiles, storage, today, lastKey, lastResult >>
  /\ UNCHANGED << evalVars, now, timezoneOffset, dailyWord >>
  /\ UNCHANGED queueVars

NextStats == RecordGame

SpecStats == InitStats /\ [][NextStats]_vars

(***************************************************************************)
(* Properties of validateGuess (checked under SpecEval)                    *)
(***************************************************************************)
evaluated == evalGuess # << >>

occurrences(word, letter) == Cardinality({ i \in 1..Len(word) : word[i] = letter })

Min(a, b) == IF a < b THEN a ELSE b

\* C1: validateGuess returns the verdicts of the two-pass reference: position
\* i is correct iff guess[i] = target[i]; any other position is present iff
\* the occurrences of its letter in the target, less those consumed by
\* correct positions and by earlier present positions, are more than 0, and
\* absent otherwise.
C1_TwoPassReference ==
  evaluated =>
    LET t == upper(targetWord)
        g == upper(evalGuess)
        r == evalResult.states
        consumed(i) ==
          Cardinality({ j \in 1..5 : g[j] = g[i] /\ r[j] = "correct" })
          + Cardinality({ j \in 1..(i - 1) : g[j] = g[i] /\ r[j] = "present" })
    IN /\ Len(r) = 5
       /\ \A i \in 1..5 :
            /\ r[i] \in { "correct", "present", "absent" }
            /\ (r[i] = "correct") <=> (g[i] = t[i])
            /\ g[i] # t[i] =>
                 ((r[i] = "present") <=> (occurrences(t, g[i]) - consumed(i) > 0))

\* a guess whose verdicts show all three outcomes
C1_Witness ==
  /\ evaluated
  /\ \E i, j, k \in 1..5 :
       /\ evalResult.states[i] = "correct"
       /\ evalResult.states[j] = "present"
       /\ evalResult.states[k] = "absent"
       /\ evalGuess[k] = evalGuess[j]

\* C2: for every letter L the positions holding L that are marked correct or
\* present number min(occurrences of L in the guess, occurrences of L in the
\* target), and once a non-exact occurrence of L is absent every later
\* non-exact occurrence of L is absent too.
C2_DuplicateCredit ==
  evaluated =>
    LET t == upper(targetWord)
        g == upper(evalGuess)
        r == evalResult.states
    IN /\ \A L \in EvalLetters :
            Cardinality({ i \in 1..5 : g[i] = L /\ r[i] \in { "correct", "present" } })
              = Min(occurrences(g, L), occurrences(t, L))
       /\ \A i, j \in 1..5 :
            (i < j /\ g[i] = g[j] /\ g[i] # t[i] /\ g[j] # t[j] /\ r[i] = "absent")
              => r[j] = "absent"

\* a letter guessed three times off position against a target holding it
\* twice: the leftmost two are credited, the third is not
C2_Witness ==
  /\ evaluated
  /\ \E i, j, k \in 1..5 :
       /\ i < j /\ j < k
       /\ evalGuess[i] = evalGuess[j] /\ evalGuess[j] = evalGuess[k]
       /\ evalResult.states[i] = "present"
       /\ evalResult.states[j] = "present"
       /\ evalResult.states[k] = "absent"


(***************************************************************************)
(* Properties of the session (checked under Spec)                          *)
(***************************************************************************)
Failed(reason) == ~lastResult.success /\ lastResult.reason = reason

Succeeded(action) == lastResult.success /\ lastResult.action = action

GuessActions == { "continue_game", "win_game", "lose_game" }

\* the result of the step is that of an accepted guess
Accepted(result) == result.success /\ result.action \in GuessActions

TerminalStableStep ==
  gameState \in { "won", "lost" } => gameState' = gameState

\* C3: once gameState is won or lost it never changes again, so no session
\* passes through both won and lost.
C3_TerminalStable == [][TerminalStableStep]_vars

\* a won game that has received a further ENTER
C3_Witness ==
  /\ gameState = "won"
  /\ lastKey = "ENTER"
  /\ Failed("Game is over")

GameOverRejectsStep ==
  gameState # "playing" =>
    /\ lastResult' = [success |-> FALSE, reason |-> "Game is over"]
    /\ UNCHANGED sessionVars

\* C4: when gameState is not playing, processKeyPress fails with 'Game is
\* over' for every key and changes no field of the session.
C4_GameOverRejects == [][GameOverRejectsStep]_vars

\* a lost game that has received a letter key
C4_Witness ==
  /\ Failed("Game is over")
  /\ gameState = "lost"
  /\ lastKey \in Letters

FailureIsPureStep ==
  ~lastResult'.success =>
    /\ UNCHANGED sessionVars
    /\ keypressListener(This', lastKey') =
         [this |-> This, result |-> lastResult']

\* C5: every call that returns success: false leaves the whole session state
\* unchanged, and repeating the rejected key yields the same result and state.
C5_FailureIsPure == [][FailureIsPureStep]_vars

\* a full row holding a word that is not in the lists, rejected by ENTER
C5_Witness ==
  /\ Failed("Not in word list")
  /\ lastKey = "ENTER"
  /\ currentCol = maxCols
  /\ currentRow > 0

WinIffTargetStep ==
  Accepted(lastResult') =>
    /\ currentRow \in 0..5
    /\ (gameState' = "won") <=> (lastResult'.letters = targetWord)
    /\ gameState' = "won" =>
         /\ lastResult'.action = "win_game"
         /\ lastResult'.guessCount = currentRow + 1
         /\ currentRow' = currentRow

\* C6: an accepted guess sets gameState to won iff the guess equals the
\* target, on any row 0..5; the win result reports guessCount = currentRow + 1
\* and currentRow is not advanced.
C6_WinIffTarget == [][WinIffTargetStep]_vars

\* the target guessed on the sixth attempt
C6_Witness ==
  /\ gameState = "won"
  /\ Succeeded("win_game")
  /\ currentRow = 5
  /\ Len(guesses) = 6

LostOnlyOnLastRowStep ==
  gameState = "playing" =>
    /\ (gameState' = "lost") <=>
         /\ Accepted(lastResult')
         /\ lastResult'.letters # targetWord
         /\ currentRow = 5
    /\ gameState' = "lost" =>
         /\ lastResult'.action = "lose_game"
         /\ lastResult'.targetWord = targetWord

\* C7: gameState becomes lost exactly when an accepted guess that is not the
\* target is submitted on row 5; the lose_game result reveals targetWord, and
\* no accepted guess on rows 0..4 produces lost.
C7_LostOnlyOnLastRow == [][LostOnlyOnLastRowStep]_vars

\* six accepted guesses, none of them the target
C7_Witness ==
  /\ gameState = "lost"
  /\ Succeeded("lose_game")
  /\ Len(guesses) = 6
  /\ \A i \in 1..6 : guesses[i].word # targetWord

\* C8: currentCol is between 0 and 5 inclusive in every reachable state.
C8_ColInRange == currentCol \in 0..5

\* a sixth letter typed into a full row
C8_Witness ==
  /\ currentCol = 5
  /\ lastKey \in Letters
  /\ Failed("Row is full")

\* C9 as stated: currentRow never exceeds 5, terminal states included.
C9_RowAtMostFive == currentRow <= 5

\* C9, amended: currentRow never exceeds 6; it is at most 5 while the game is
\* playing or won, and it is 6 exactly in the lost state.
C9_RowBound ==
  /\ currentRow \in 0..6
  /\ gameState \in { "playing", "won" } => currentRow <= 5
  /\ gameState = "lost" <=> currentRow = 6

\* a lost game, whose row index has been advanced past the last row
C9_Witness ==
  /\ Succeeded("lose_game")
  /\ gameState = "lost"
  /\ currentRow = 6
  /\ currentCol = 0

HintsMonotonicStep ==
  \A letter \in AZ :
    statePriority(letterStates'[letter]) >= statePriority(letterStates[letter])

\* C10: each letter's letterStates entry only moves upward in the order
\* unused < absent < present < correct.
C10_HintsMonotonic == [][HintsMonotonicStep]_vars

\* a letter made correct by the first guess whose verdicts in the latest
\* guess are only present or absent, and which is still correct
C10_Witness ==
  /\ Succeeded("continue_game")
  /\ Len(guesses) >= 2
  /\ \E letter \in Letters :
       /\ letterStates[letter] = "correct"
       /\ \E i \in 1..5 : /\ guesses[1].word[i] = letter
                          /\ guesses[1].result[i] = "correct"
       /\ LET last == guesses[Len(guesses)]
          IN /\ \E i \in 1..5 : last.word[i] = letter /\ last.result[i] = "present"
             /\ \E i \in 1..5 : last.word[i] = letter /\ last.result[i] = "absent"
             /\ \A i \in 1..5 : last.word[i] = letter => last.result[i] # "correct"

\* the letters shown in the active row, as a word
activeRowWord == [i \in 1..maxCols |-> tiles[currentRow][i - 1]]

AddLetterStep ==
  (gameState = "playing" /\ lastKey' \in AZ) =>
    IF currentCol < 5
    THEN /\ lastResult' = [success |-> TRUE, action |-> "add_letter",
                           letter |-> lastKey', row |-> currentRow,
                           col |-> currentCol]
         /\ currentCol' = currentCol + 1
         /\ currentRow' = currentRow
         /\ tiles' = [tiles EXCEPT ![currentRow][currentCol] = lastKey']
    ELSE /\ lastResult' = [success |-> FALSE, reason |-> "Row is full"]
         /\ currentCol' = currentCol

\* C11: while playing, a letter key with currentCol < 5 succeeds with
\* add_letter reporting the current row and the column the letter was placed
\* in (currentCol before the call) and increments currentCol by exactly 1;
\* with currentCol = 5 it fails with 'Row is full'.
C11_AddLetter == [][AddLetterStep]_vars

\* the fifth letter of a later row has just been placed
C11_Witness ==
  /\ Succeeded("add_letter")
  /\ lastResult.col = 4
  /\ currentCol = 5
  /\ currentRow > 0
  /\ tiles[currentRow][4] = lastKey

DeleteLetterStep ==
  (gameState = "playing" /\ lastKey' = "BACKSPACE") =>
    IF currentCol > 0
    THEN /\ currentCol' = currentCol - 1
         /\ currentRow' = currentRow
         /\ lastResult' = [success |-> TRUE, action |-> "delete_letter",
                           row |-> currentRow, col |-> currentCol - 1]
         /\ tiles' = [tiles EXCEPT ![currentRow][currentCol - 1] = ""]
    ELSE /\ lastResult' = [success |-> FALSE, reason |-> "Nothing to delete"]
         /\ currentCol' = 0
         /\ currentRow' = currentRow

\* C12: while playing, BACKSPACE with currentCol > 0 decrements currentCol by
\* exactly 1 and reports delete_letter with the current row and the new
\* currentCol as the cell to clear; with currentCol = 0 it fails with
\* 'Nothing to delete' and never moves back into a previous row.
C12_DeleteLetter == [][DeleteLetterStep]_vars

\* BACKSPACE on the empty row below a completed one
C12_Witness ==
  /\ Failed("Nothing to delete")
  /\ lastKey = "BACKSPACE"
  /\ currentRow > 0
  /\ currentCol = 0
  /\ gameState = "playing"

NotEnoughLettersStep ==
  (gameState = "playing" /\ lastKey' = "ENTER" /\ currentCol < 5) =>
    /\ lastResult' = [success |-> FALSE, reason |-> "Not enough letters",
                      action |-> "shake_row", row |-> currentRow]
    /\ UNCHANGED sessionVars

\* C13: while playing, ENTER with currentCol < 5 fails with 'Not enough
\* letters' and action shake_row for the current row, whatever the letters
\* typed so far, and changes no state.
C13_NotEnoughLetters == [][NotEnoughLettersStep]_vars

\* ENTER on a row of four letters
C13_Witness ==
  /\ Failed("Not enough letters")
  /\ lastKey = "ENTER"
  /\ lastResult.action = "shake_row"
  /\ currentCol = 4
  /\ lastResult.row = currentRow
  /\ currentRow > 0

WordListStep ==
  (gameState = "playing" /\ lastKey' = "ENTER" /\ currentCol = 5) =>
    /\ Accepted(lastResult') <=>
         upper(activeRowWord) \in (ANSWERS \cup VALID_GUESSES)
    /\ ~Accepted(lastResult') =>
         /\ lastResult' = [success |-> FALSE, reason |-> "Not in word list",
                           action |-> "shake_row", row |-> currentRow]
         /\ UNCHANGED << currentRow, currentCol, guesses, letterStates,
                         gameState >>
         /\ currentCol' = 5

\* C14: ENTER on a full row is accepted exactly when the assembled word, in
\* upper case, is in answers or validGuesses; otherwise it fails with 'Not in
\* word list' and shake_row, and currentRow, currentCol (still 5), guesses,
\* letterStates and gameState are unchanged.
C14_WordList == [][WordListStep]_vars

\* an accepted guess that is a valid guess but not an answer
C14_Witness ==
  /\ Succeeded("continue_game")
  /\ lastResult.letters \in VALID_GUESSES \ ANSWERS
  /\ guesses[Len(guesses)].word = lastResult.letters

ContinueStep ==
  ( /\ gameState = "playing" /\ lastKey' = "ENTER" /\ currentCol = 5
    /\ upper(activeRowWord) \in (ANSWERS \cup VALID_GUESSES)
    /\ upper(activeRowWord) # targetWord
    /\ currentRow \in 0..4 ) =>
    LET word == upper(activeRowWord)
        verdicts == validateGuess(targetWord, word).states
    IN /\ lastResult' = [success |-> TRUE, action |-> "continue_game",
                         row |-> currentRow, letters |-> word,
                         states |-> verdicts]
       /\ guesses' = Append(guesses, [word |-> word, result |-> verdicts])
       /\ currentRow' = currentRow + 1
       /\ currentCol' = 0
       /\ gameState' = "playing"

\* C15: an accepted guess that is not the target on rows 0..4 returns
\* continue_game with the index, letters and verdicts of the row just
\* completed, appends exactly one {word, result} record to guesses, advances
\* currentRow by exactly 1, resets currentCol to 0 and leaves gameState
\* playing.
C15_Continue == [][ContinueStep]_vars

\* the fifth guess accepted, the sixth row now active
C15_Witness ==
  /\ Succeeded("continue_game")
  /\ lastResult.row = 4
  /\ currentRow = 5
  /\ currentCol = 0
  /\ Len(guesses) = 5
  /\ gameState = "playing"

InvalidKeyStep ==
  (gameState = "playing" /\ lastKey' \notin ({ "ENTER", "BACKSPACE" } \cup AZ)) =>
    /\ lastResult' = [success |-> FALSE, reason |-> "Invalid key"]
    /\ UNCHANGED sessionVars

\* C16: while playing, any key other than ENTER, BACKSPACE or a single
\* upper-case letter fails with 'Invalid key' and changes no state.
C16_InvalidKey == [][InvalidKeyStep]_vars

\* a lower-case letter typed into a row that already holds letters
C16_Witness ==
  /\ Failed("Invalid key")
  /\ lastKey = "a"
  /\ gameState = "playing"
  /\ currentCol > 0

(***************************************************************************)
(* Properties of the daily word (checked under SpecDaily)                  *)
(***************************************************************************)
\* the instant lies in the UTC day that starts d whole days after the epoch
InUTCDay(time, d) ==
  /\ GAME_EPOCH + d * secondsPerDay <= time
  /\ time < GAME_EPOCH + (d + 1) * secondsPerDay

UTCDays == (-MaxPast - 1)..(MaxDay + 1)

SameUTCDayStep ==
  /\ (\E d \in UTCDays : InUTCDay(now, d) /\ InUTCDay(now', d)) =>
       /\ dailyWord'.dayNumber = dailyWord.dayNumber
       /\ dailyWord'.word = dailyWord.word
  /\ (call'.op = "getWordForDay" /\ call'.arg = dailyWord'.dayNumber) =>
       call'.result.word = dailyWord'.word

C18_DayNumber ==
  /\ \A d \in UTCDays : InUTCDay(now, d) => dailyWord.dayNumber = d
  /\ (0 <= now /\ now <= 86399) => dailyWord.dayNumber = 0
  /\ (86400 <= now /\ now <= 172799) => dailyWord.dayNumber = 1
  /\ (30 * 86400 <= now /\ now <= 30 * 86400 + 86399) => dailyWord.dayNumber = 30
  /\ now < 0 => dailyWord.dayNumber < 0

\* the last second of 2024-01-31
C18_Witness ==
  /\ now = 30 * 86400 + 86399
  /\ dailyWord.dayNumber = 30

\* C19: seededRandom returns a value v = next / 2^31 with 0 <= v < 1 for
\* every seed, negative and zero included, and getWordForDay returns a word
\* of the answer list for every day number.
C19_InRange ==
  /\ call.op = "seededRandom" =>
       /\ call.result >= 0
       /\ call.result <= 2147483647
       /\ wordIndexOf(call.result, Len(WORDS)) \in 0..(Len(WORDS) - 1)
  /\ call.op = "getWordForDay" =>
       /\ call.result.word # undefined
       /\ \E i \in 1..Len(WORDS) : call.result.word = WORDS[i]
  /\ \E i \in 1..Len(WORDS) : dailyWord.word = WORDS[i]

\* seededRandom called with a negative seed
C19_Witness ==
  /\ call.op = "seededRandom"
  /\ call.arg < 0
  /\ call.result > 0

(***************************************************************************)
(* The daily target in the session (checked under Spec)                    *)
(***************************************************************************)
\* every word the generator selects from, and every answer, is a valid guess
DailyWordsValid ==
  /\ \A i \in 1..Len(WORDS) : WORDS[i] \in ANSWERS /\ isValidWord(WORDS[i])
  /\ \A word \in ANSWERS : isValidWord(word)

TargetAcceptedStep ==
  /\ DailyWordsValid
  /\ targetWord \in ANSWERS
  /\ ( /\ gameState = "playing" /\ lastKey' = "ENTER" /\ currentCol = 5
       /\ upper(activeRowWord) = targetWord ) =>
       /\ lastResult'.success
       /\ lastResult'.action = "win_game"
       /\ gameState' = "won"

typedLetters == SubSeq(activeRowWord, 1, currentCol)

\* the filled tiles of the active row are exactly columns 0..currentCol-1
filledUpToCol ==
  \A col \in 0..(maxCols - 1) : (tiles[currentRow][col] # "") <=> (col < currentCol)

TypedLettersStep ==
  gameState = "playing" =>
    /\ filledUpToCol
    /\ gameState' = "playing" => filledUpToCol'
    /\ (lastKey' \in AZ /\ currentCol < maxCols) =>
         typedLetters' = Append(typedLetters, lastKey')
    /\ (lastKey' = "BACKSPACE" /\ currentCol > 0) =>
         typedLetters' = SubSeq(typedLetters, 1, currentCol - 1)
    /\ (lastKey' = "ENTER" /\ currentCol = maxCols) =>
         IF isValidWord(typedLetters)
         THEN /\ Accepted(lastResult')
              /\ lastResult'.letters = typedLetters
              /\ guesses' = Append(guesses,
                              [word |-> typedLetters,
                               result |-> validateGuess(targetWord, typedLetters).states])
         ELSE /\ lastResult'.reason = "Not in word list"
              /\ typedLetters' = typedLetters
    /\ ~lastResult'.success => typedLetters' = typedLetters

\* C35: the game logic keeps no copy of the typed letters and reads them
\* back from the UI tiles: under any sequence of key events the filled tiles
\* of the current row are exactly columns 0..currentCol-1, a letter key adds
\* its letter at the end, a backspace removes the most recently placed
\* letter, and when ENTER is processed on a full row the word passed to
\* validation is the five letters so typed, in order.
C35_TypedLetters == [][TypedLettersStep]_vars

\* the five letters typed into the second row were read back from its tiles
\* and accepted as the second guess; the row now active is empty
C35_Witness ==
  /\ Succeeded("continue_game")
  /\ currentRow = 2
  /\ guesses[2].word = << "A", "B", "A", "A", "B" >>
  /\ lastResult.letters = guesses[2].word
  /\ currentCol = 0
  /\ \A col \in 0..(maxCols - 1) : tiles[currentRow][col] = ""

(***************************************************************************)
(* The keyboard hints against the target (checked under Spec)              *)
(***************************************************************************)
\* the letter occurs somewhere in the word
occursIn(letter, word) == \E i \in DOMAIN word : word[i] = letter

\* C36: in every reachable state of a session, a letter whose letterStates
\* entry is absent does not occur anywhere in targetWord, a letter whose
\* entry is present or correct does occur in targetWord, and a letter is
\* unused exactly when it appears in no accepted guess.
C36_HintsSound ==
  \A letter \in AZ :
    /\ letterStates[letter] = "absent" => ~occursIn(letter, targetWord)
    /\ letterStates[letter] \in { "present", "correct" } =>
         occursIn(letter, targetWord)
    /\ letterStates[letter] = "unused" <=>
         \A i \in DOMAIN guesses : ~occursIn(letter, guesses[i].word)

\* a letter of the target judged present at one position and absent at
\* another of the same guess is kept as present, while a letter that is not
\* in the target is absent and the letters never guessed are unused
C36_Witness ==
  /\ Succeeded("continue_game")
  /\ Len(guesses) >= 2
  /\ \E letter \in Letters :
       /\ letterStates[letter] = "present"
       /\ occursIn(letter, targetWord)
       /\ \E k \in { Len(guesses) }, i, j \in 1..5 :
            /\ guesses[k].word[i] = letter /\ guesses[k].result[i] = "present"
            /\ guesses[k].word[j] = letter /\ guesses[k].result[j] = "absent"
  /\ \E letter \in AZ : letterStates[letter] = "unused"

(***************************************************************************)
(* The list of guesses (checked under Spec)                                *)
(***************************************************************************)
\* C38: in every state reachable from a new game by processKeyPress calls,
\* guesses holds at most 6 records, and while gameState is playing the
\* number of records in guesses equals currentRow (one record per completed
\* row, none for the row being typed).
C38_OneRecordPerRow ==
  /\ Len(guesses) <= maxRows
  /\ gameState = "playing" => Len(guesses) = currentRow

\* the last row is being typed, a word the lists do not hold has just been
\* rejected in it, and five rows are on record
C38_Witness ==
  /\ gameState = "playing"
  /\ Failed("Not in word list")
  /\ currentRow = maxRows - 1
  /\ currentCol = maxCols
  /\ Len(guesses) = maxRows - 1

GuessesFrameStep ==
  /\ targetWord' = targetWord
  /\ gameMode' = gameMode
  /\ IF Accepted(lastResult')
     THEN /\ Len(guesses') = Len(guesses) + 1
          /\ SubSeq(guesses', 1, Len(guesses)) = guesses
          /\ guesses'[Len(guesses')].word = lastResult'.letters
     ELSE guesses' = guesses

\* C39: no processKeyPress call, whatever its outcome, changes targetWord or
\* gameMode, and a record once appended to guesses is never modified,
\* reordered or removed by later key presses: guesses grows only by
\* appending one record per accepted guess.
C39_GuessesFrame == [][GuessesFrameStep]_vars

\* a third guess, different from the first, has been appended and the first
\* two records are as they were
C39_Witness ==
  /\ Accepted(lastResult)
  /\ Len(guesses) = 3
  /\ guesses[3].word = lastResult.letters
  /\ guesses[3].word # guesses[1].word
  /\ guesses[2].word # guesses[1].word
  /\ targetWord \in ANSWERS
  /\ gameMode = "daily"

(***************************************************************************)
(* The evaluateGuess examples (checked under SpecEval)                     *)
(***************************************************************************)
\* C26: validateGuess with target HELLO and guess WORLD returns the verdicts
\* absent, present, absent, correct, absent and isWin = false.
C26_HelloWorld ==
  (evaluated /\ upper(targetWord) = HELLO /\ upper(evalGuess) = WORLD) =>
    /\ evalResult.states = << "absent", "present", "absent", "correct", "absent" >>
    /\ evalResult.isWin = FALSE
    /\ evalResult.word = evalGuess

\* WORLD has been evaluated against HELLO
C26_Witness ==
  /\ evaluated
  /\ targetWord = HELLO
  /\ evalGuess = WORLD
  /\ evalResult.states[2] = "present"

\* C27: validateGuess with target HELLO and guess LLAMA returns the verdicts
\* present, present, absent, absent, absent: both guessed L's are credited
\* from the target's two L's although neither is in its exact position.
C27_HelloLlama ==
  (evaluated /\ upper(targetWord) = HELLO /\ upper(evalGuess) = LLAMA) =>
    /\ evalResult.states = << "present", "present", "absent", "absent", "absent" >>
    /\ occurrences(HELLO, "L") = 2
    /\ \A i \in 1..2 : evalGuess[i] = "L" /\ targetWord[i] # "L"

\* LLAMA has been evaluated against HELLO and both L's are present
C27_Witness ==
  /\ evaluated
  /\ targetWord = HELLO
  /\ evalGuess = LLAMA
  /\ evalResult.states[1] = "present"
  /\ evalResult.states[2] = "present"

\* C28: for every 5-letter target and guess, isWin is true exactly when all
\* five verdicts are correct, which is exactly when the upper-cased guess
\* equals the upper-cased target.
C28_WinIffEqual ==
  evaluated =>
    /\ Len(evalResult.states) = 5
    /\ evalResult.isWin <=> (\A i \in 1..5 : evalResult.states[i] = "correct")
    /\ evalResult.isWin <=> (upper(evalGuess) = upper(targetWord))

\* a win on HELLO against HELLO, and a win on a guess typed in another case
C28_Witness ==
  /\ evaluated
  /\ evalResult.isWin
  /\ \/ (targetWord = HELLO /\ evalGuess = HELLO)
     \/ evalGuess # targetWord


\* C32 as stated: validateGuess with target CRANE and guess TRACE returns the
\* verdicts present, present, absent, correct, correct.
C32_CraneTraceAsStated ==
  (evaluated /\ upper(targetWord) = CRANE /\ upper(evalGuess) = TRACE) =>
    evalResult.states = << "present", "present", "absent", "correct", "correct" >>

\* C32, amended: validateGuess with target CRANE and guess TRACE returns the
\* verdicts absent, correct, correct, present, correct: R, A and E stand in
\* their positions, C is elsewhere in the target and T is not in it.
C32_CraneTrace ==
  (evaluated /\ upper(targetWord) = CRANE /\ upper(evalGuess) = TRACE) =>
    /\ evalResult.states = << "absent", "correct", "correct", "present", "correct" >>
    /\ evalResult.isWin = FALSE

\* TRACE has been evaluated against CRANE
C32_Witness ==
  /\ evaluated
  /\ targetWord = CRANE
  /\ evalGuess = TRACE
  /\ evalResult.states[4] = "present"

(***************************************************************************)
(* The countdown to the next puzzle (checked under SpecDaily)              *)
(***************************************************************************)
\* seconds of the local day that have passed at the clock's instant
localSecondOfDay == (now - timezoneOffset * 60) % secondsPerDay

\* C25: getDayStats reports timeUntilNext as the milliseconds from now to the
\* next local midnight, hours = floor(ms / 3600000) and minutes =
\* floor((ms mod 3600000) / 60000); at 23:59:00 local time it reports 0 hours
\* and 1 minute.
C25_Countdown ==
  LET ms == dailyWord.timeUntilNext.milliseconds
  IN /\ ms = (secondsPerDay - localSecondOfDay) * 1000
     /\ dailyWord.timeUntilNext.hours = ms \div 3600000
     /\ dailyWord.timeUntilNext.minutes = (ms % 3600000) \div 60000
     /\ localSecondOfDay = LastMinute =>
          /\ dailyWord.timeUntilNext.hours = 0
          /\ dailyWord.timeUntilNext.minutes = 1

\* the countdown has been read at 23:59:00 local time away from UTC
C25_Witness ==
  /\ localSecondOfDay = LastMinute
  /\ timezoneOffset # 0
  /\ now > GAME_EPOCH
  /\ dailyWord.timeUntilNext.milliseconds = 60000


\* the step is a tick of the daily timer: the clock has moved on
IsTick == now' # now

NewWordMessageStep ==
  (IsTick /\ showsNewWordMessage(dailyWord')) =>
    /\ getTodaysWord(Date(now', timezoneOffset')).dayNumber > today
    /\ dailyWord'.dayNumber > today

\* C37: the daily timer shows 'New daily word available! Refresh to play.'
\* only at a tick at which the daily word has already changed, that is,
\* getTodaysWord at that instant returns a later day number than the one of
\* the puzzle being played.
C37_NewWordMessage == [][NewWordMessageStep]_vars

(***************************************************************************)
(* Properties of the statistics (checked under SpecStats)                  *)
(***************************************************************************)
sumDistribution(dist) == dist[1] + dist[2] + dist[3] + dist[4] + dist[5] + dist[6]

Max(a, b) == IF a > b THEN a ELSE b

DistributionStep ==
  call'.op = "recordGame" =>
    LET gameResult == call'.arg
        before == statistics.guessDistribution
        after == statistics'.guessDistribution
    IN /\ statistics'.totalGames = statistics.totalGames + 1
       /\ statistics'.totalWins <= statistics'.totalGames
       /\ Len(after) = 6
       /\ sumDistribution(after) = statistics'.totalWins
       /\ gameResult.won =>
            after = [before EXCEPT ![gameResult.guessCount] = @ + 1]
       /\ ~gameResult.won => after = before

\* C29: after any sequence of recordGame calls from the default statistics
\* (guessCount in 1..6), totalWins <= totalGames, the six entries of
\* guessDistribution sum to totalWins, a win with guessCount g increments
\* only the entry for g, and a loss changes no entry.
C29_Distribution == [][DistributionStep]_vars

\* two wins with different guess counts, then a loss
C29_Witness ==
  /\ call.op = "recordGame"
  /\ ~call.arg.won
  /\ statistics.totalGames = 3
  /\ statistics.totalWins = 2
  /\ statistics.guessDistribution[1] = 1
  /\ statistics.guessDistribution[6] = 1

StreakStep ==
  call'.op = "recordGame" =>
    /\ statistics.totalGames = 0 =>
         statistics.currentStreak = 0 /\ statistics.maxStreak = 0
    /\ ~call'.arg.won =>
         /\ statistics'.currentStreak = 0
         /\ statistics'.maxStreak = statistics.maxStreak
    /\ statistics'.maxStreak =
         Max(statistics.maxStreak, statistics'.currentStreak)
    /\ statistics'.maxStreak >= statistics'.currentStreak

\* C30: recording a lost game sets the overall currentStreak to 0 and leaves
\* maxStreak unchanged; maxStreak starts at 0 with currentStreak and after
\* every recordGame is the larger of its old value and the new
\* currentStreak, so it is the largest value currentStreak has ever had and
\* never less than currentStreak.
C30_Streak == [][StreakStep]_vars

\* two wins and then a loss: the streak is back at 0 and the maximum stays 2
C30_Witness ==
  /\ call.op = "recordGame"
  /\ ~call.arg.won
  /\ statistics.totalGames = 3
  /\ statistics.currentStreak = 0
  /\ statistics.maxStreak = 2


WinStreakStep ==
  (call'.op = "recordGame" /\ call'.arg.won) =>
    LET lastDate == statistics.lastPlayedDate
        date == call'.arg.date
        history == statistics'.gameHistory
    IN /\ lastDate = null => statistics'.currentStreak = statistics.currentStreak + 1
       /\ lastDate # null =>
            IF getDaysDifference(lastDate, date) <= 1
            THEN statistics'.currentStreak = statistics.currentStreak + 1
            ELSE statistics'.currentStreak = 1
       /\ ( /\ Len(history) = 3
            /\ \A i \in 1..3 : history[i].won
            /\ getDaysDifference(history[3].date, history[2].date) = 1
            /\ getDaysDifference(history[2].date, history[1].date) = 1 )
          => statistics'.currentStreak = 3

\* C31: a win recorded with no previous game, or with a date at most one day
\* after lastPlayedDate, increases the overall currentStreak by exactly 1
\* (wins on three consecutive dates give streak 3); a win recorded more than
\* one day after lastPlayedDate sets currentStreak to 1.
C31_WinStreak == [][WinStreakStep]_vars

\* wins on three consecutive dates
C31_Witness ==
  /\ call.op = "recordGame"
  /\ Len(statistics.gameHistory) = 3
  /\ \A i \in 1..3 : statistics.gameHistory[i].won
  /\ statistics.gameHistory[3].date = toISODate(0)
  /\ statistics.gameHistory[2].date = toISODate(1)
  /\ statistics.gameHistory[1].date = toISODate(2)
  /\ statistics.currentStreak = 3

(***************************************************************************)
(* Properties of the saved session (checked under SpecSession)             *)
(***************************************************************************)
\* the last key ended in a branch of submitGuess that calls saveGameState
saved == lastResult.success /\ lastResult.action \in GuessActions

\* a new GameLogic that has read the snapshot back
restored == restoreGameState(startNewGame(This, dailyWord.word), storage)

IsReload == lastKey' = null /\ today' = today /\ dailyWord' = dailyWord

ReloadStep ==
  IsReload =>
    IF storage # noSavedState /\ storage.date = toISODate(today)
    THEN /\ storage' = storage
         /\ targetWord' = storage.targetWord
         /\ currentRow' = storage.currentRow
         /\ currentCol' = storage.currentCol
         /\ gameState' = storage.gameState
         /\ guesses' = storage.guesses
         /\ letterStates' = storage.letterStates
         /\ gameMode' = storage.gameMode
    ELSE /\ storage' = noSavedState
         /\ targetWord' = dailyWord.word
         /\ currentRow' = 0
         /\ currentCol' = 0
         /\ gameState' = "playing"
         /\ guesses' = << >>
         /\ DOMAIN letterStates' = AZ
         /\ Cardinality(DOMAIN letterStates') = 26
         /\ \A l \in AZ : letterStates'[l] = "unused"
         /\ gameMode' = "daily"

\* C22: when a GameLogic is constructed, the saved snapshot is restored only
\* if its date equals today's date; if the dates differ or there is no
\* snapshot, the stored snapshot is cleared and a fresh game starts at row 0,
\* column 0, playing, with no guesses, all 26 letters unused and today's
\* word as target.
C22_RestoreOnlyToday == [][ReloadStep]_vars

\* yesterday's finished game was in the snapshot; the load on the next day
\* cleared it and started the new day's puzzle
C22_Witness ==
  /\ today = 1
  /\ lastKey = null
  /\ storage = noSavedState
  /\ statistics.totalGames = 1
  /\ statistics.lastPlayedDate = toISODate(0)
  /\ gameState = "playing"
  /\ guesses = << >>
  /\ targetWord = dailyWord.word

\* the puzzle was completed on the date the clock shows
completedToday ==
  /\ gameState \in { "won", "lost" }
  /\ statistics.lastPlayedDate = toISODate(today)

NoSecondAttemptStep ==
  (completedToday /\ today' = today) =>
    /\ gameState' = gameState
    /\ guesses' = guesses
    /\ targetWord' = targetWord
    /\ currentRow' = currentRow
    /\ statistics' = statistics
    /\ lastKey' # null =>
         lastResult' = [success |-> FALSE, reason |-> "Game is over"]

LoadsTodaysWordStep ==
  (IsReload /\ gameMode' = "daily") => targetWord' = dailyWord'.word

\* C33: whenever a GameLogic is constructed in daily mode, whether it starts
\* fresh or restores a snapshot, its targetWord is the daily word of the
\* current date, under any interleaving of key presses, accepted guesses,
\* date changes and page reloads.
C33_LoadsTodaysWord == [][LoadsTodaysWordStep]_vars

\* the step ends the game: an accepted guess takes it from playing to won or lost
EndsGame ==
  /\ lastKey' = "ENTER"
  /\ gameState = "playing"
  /\ gameState' \in { "won", "lost" }
  /\ lastResult'.success
  /\ lastResult'.action = (IF gameState' = "won" THEN "win_game" ELSE "lose_game")

RecordedOnceStep ==
  /\ EndsGame =>
       statistics' = recordGame(statistics, gameState' = "won",
                                IF gameState' = "won" THEN currentRow + 1 ELSE maxRows,
                                targetWord, gameMode, toISODate(today))
  /\ ~EndsGame => statistics' = statistics
  /\ \A i, j \in DOMAIN statistics'.gameHistory :
       i # j => statistics'.gameHistory[i].date # statistics'.gameHistory[j].date

====
